---- MODULE Spec2Model ----
(***************************************************************************)
(* Model of gmmn_tf2.py: generative moment matching networks.              *)
(*                                                                         *)
(*  Spec      the code-space training driver trainCodeSpaceNetwork         *)
(*  SpecTrain either driver, trainDataSpaceNetwork or                      *)
(*            trainCodeSpaceNetwork, run to its end                        *)
(*  SpecCost  Autoencoder.layerCost as a value, on two autoencoders        *)
(*  SpecLoss  the MMD loss computeLoss / makeScaleMatrix                   *)
(*  SpecNet   the constructors of the layers and networks and the forward  *)
(*            passes call / encode / generate / layerCost                  *)
(*                                                                         *)
(* Python lists are 0-based, TLA+ sequences 1-based: a Python index p is   *)
(* the TLA+ index p + 1.  Layer indices kept in variables are the Python   *)
(* ones.                                                                   *)
(***************************************************************************)
EXTENDS Integers, Sequences, FiniteSets, TLC

VARIABLES
    \* ---- trainCodeSpaceNetwork ----
    pc,             \* position in the driver
    layer_index,    \* loop variable of the greedy pretraining loop
    i,              \* loop variable of the running iteration loop
    weights,        \* value of every tf.Variable (W and b of every layer)
    grads,          \* result of the last tape.gradient call
    updates,        \* log of the optimizer.apply_gradients calls made so far
    tape_calls,     \* number of tape.gradient calls made so far
    figure_calls,   \* number of generateFigure calls made so far
    \* ---- two autoencoders compared on layerCost ----
    weights_b,      \* the variables of the second autoencoder
    cost,           \* what layerCost returned for the two
    \* ---- computeLoss ----
    lpc,            \* position in computeLoss
    batch_size,     \* self.batch_size of the network
    gen_x,          \* generated batch (rows)
    x,              \* batch from the dataset (rows)
    sigma,          \* bandwidth list
    s,              \* scale column returned by makeScaleMatrix
    sigma_i,        \* loop variable of the bandwidth loop
    loss,           \* accumulated loss
    outcome,        \* what computeLoss returned or raised
    \* ---- constructors and forward passes ----
    network,        \* args.network
    dsn,            \* the DataSpaceNetwork object
    ae,             \* the Autoencoder object
    csn,            \* the CodeSpaceNetwork object
    last_call       \* the last constructor or forward pass called, its
                    \* arguments and the layers it applied, in order

trainVars == <<pc, layer_index, i, weights, grads, updates, tape_calls,
               figure_calls>>
costVars  == <<weights_b, cost>>
lossVars  == <<lpc, batch_size, gen_x, x, sigma, s, sigma_i, loss, outcome>>
netVars   == <<network, dsn, ae, csn, last_call>>
vars      == <<trainVars, lossVars, netVars, costVars>>

None == "None"

Min(a, b) == IF a < b THEN a ELSE b
Max(a, b) == IF a > b THEN a ELSE b

(***************************************************************************)
(* Layers.  A dropout probability is kept in tenths (0.8 is 8).            *)
(***************************************************************************)
ReLULayer(input_dim, output_dim) ==
    [kind |-> "relu", input_dim |-> input_dim, output_dim |-> output_dim]

SigmoidLayer(input_dim, output_dim, dropout_prob) ==
    [kind |-> "sigmoid", input_dim |-> input_dim, output_dim |-> output_dim,
     dropout_prob |-> dropout_prob]

\* the default argument dropout_prob=0.0
DefaultDropout == 0

\* A constructor that raised: no object exists.
Raised(error) == [ok |-> FALSE, error |-> error]

\* A name no object has been bound to yet.
Unconstructed == Raised(None)

\* Python's range(n) as the sequence <<0, ..., n-1>> (empty when n <= 0)
Range(n) == [j \in 1..Max(n, 0) |-> j - 1]

\* range(n)[::-1]
Reversed(seq) == [j \in 1..Len(seq) |-> seq[Len(seq) + 1 - j]]

\* The value a loop variable keeps after "for v in range(n)": the last value
\* of the range, or unbound when the loop body never ran.
LoopVarAfter(n) ==
    IF n >= 1 THEN [bound |-> TRUE, value |-> n - 1] ELSE [bound |-> FALSE]

(***************************************************************************)
(* DataSpaceNetwork.__init__                                               *)
(***************************************************************************)
DataSpaceNetworkInit(dimensions, bsize) ==
    LET relu == [j \in 1..Len(Range(Len(dimensions) - 2)) |->
                    ReLULayer(dimensions[Range(Len(dimensions) - 2)[j] + 1],
                              dimensions[Range(Len(dimensions) - 2)[j] + 2])]
        dim_index == LoopVarAfter(Len(dimensions) - 2)
    IN  IF ~dim_index.bound
        THEN Raised("UnboundLocalError")
        ELSE [ok |-> TRUE,
              dimensions |-> dimensions,
              batch_size |-> bsize,
              layers_list |-> Append(relu,
                  SigmoidLayer(dimensions[(dim_index.value + 1) + 1],
                               dimensions[(dim_index.value + 2) + 1],
                               DefaultDropout))]

(***************************************************************************)
(* Autoencoder.__init__                                                    *)
(***************************************************************************)
AutoencoderInit_DecoderNotReversed(dimensions, dropout) ==
    LET enc_range == Range(Len(dimensions) - 1)
        encoder == [j \in 1..Len(enc_range) |->
                       SigmoidLayer(dimensions[enc_range[j] + 1],
                                    dimensions[enc_range[j] + 2],
                                    dropout[enc_range[j] + 1])]
        decoder == [j \in 1..Len(enc_range) |->
                       SigmoidLayer(dimensions[enc_range[j] + 2],
                                    dimensions[enc_range[j] + 1],
                                    DefaultDropout)]
    IN  IF \E j \in 1..Len(enc_range) : enc_range[j] + 1 > Len(dropout)
        THEN Raised("IndexError")
        ELSE [ok |-> TRUE,
              dimensions |-> dimensions,
              layers_list |-> encoder \o decoder]

AutoencoderInit(dimensions, dropout) ==
    LET enc_range == Range(Len(dimensions) - 1)
        dec_range == Reversed(Range(Len(dimensions) - 1))
        encoder == [j \in 1..Len(enc_range) |->
                       SigmoidLayer(dimensions[enc_range[j] + 1],
                                    dimensions[enc_range[j] + 2],
                                    dropout[enc_range[j] + 1])]
        decoder == [j \in 1..Len(dec_range) |->
                       SigmoidLayer(dimensions[dec_range[j] + 2],
                                    dimensions[dec_range[j] + 1],
                                    DefaultDropout)]
    IN  IF \E j \in 1..Len(enc_range) : enc_range[j] + 1 > Len(dropout)
        THEN Raised("IndexError")
        ELSE [ok |-> TRUE,
              dimensions |-> dimensions,
              layers_list |-> encoder \o decoder]

(***************************************************************************)
(* CodeSpaceNetwork.__init__                                               *)
(***************************************************************************)
CodeSpaceNetworkInit(dimensions, ae_dims, bsize) ==
    LET rng == Range(Len(dimensions) - 1)
        relu == [j \in 1..Len(rng) |->
                    ReLULayer(dimensions[rng[j] + 1], dimensions[rng[j] + 2])]
        dim_index == LoopVarAfter(Len(dimensions) - 1)
    IN  IF Len(ae_dims) = 0
        THEN Raised("IndexError")
        ELSE IF ~dim_index.bound
        THEN Raised("UnboundLocalError")
        ELSE [ok |-> TRUE,
              dimensions |-> dimensions,
              auto_encoder_dims |-> ae_dims,
              batch_size |-> bsize,
              layers_list |-> Append(relu,
                  SigmoidLayer(dimensions[(dim_index.value + 1) + 1],
                               ae_dims[Len(ae_dims)],
                               DefaultDropout))]

(***************************************************************************)
(* trainCodeSpaceNetwork                                                   *)
(***************************************************************************)
\* input_dim of the 'mnist' branch; the 'lfw' branch differs only in it
input_dim == 784

auto_encoder_dims == <<input_dim, 1024, 32>>
code_space_dims == <<10, 64, 256, 256, input_dim>>

\* batch_size = 1000, the batch size for training the moment matching network
train_batch_size == 1000

auto_encoder == AutoencoderInit(auto_encoder_dims, <<8, 5>>)
code_space_network ==
    CodeSpaceNetworkInit(code_space_dims, auto_encoder_dims, train_batch_size)

\* Iteration budgets of the three loops (3001, 4001 and 40001 in the driver).
PretrainIterations == 2
FinetuneIterations == 2
GeneratorIterations == 2

\* A tf.Variable is named by its network, its layer and its attribute.
LayerTrainableWeights(net, l) == << <<net, l, "W">>, <<net, l, "b">> >>

\* model.trainable_weights: W and b of every layer, in layer order
ModelTrainableWeights(net, model) ==
    [j \in 1..(2 * Len(model.layers_list)) |->
        <<net, (j - 1) \div 2, IF j % 2 = 1 THEN "W" ELSE "b">>]

SeqRange(seq) == {seq[j] : j \in 1..Len(seq)}

AEVariables == SeqRange(ModelTrainableWeights("ae", auto_encoder))
GenVariables == SeqRange(ModelTrainableWeights("gen", code_space_network))
Variables == AEVariables \cup GenVariables

\* Abstract values of a variable; 0 is the value it is initialized with.
ParamVals == {0, 1}

\* for layer_index in range(len(auto_encoder_dims) - 1)
PretrainLayerRange_Reversed == Reversed(Range(Len(auto_encoder_dims) - 1))
PretrainLayerRange == Range(Len(auto_encoder_dims) - 1)

\* The variables each loss reads on a differentiable path.
LayerCostReads(l) ==
    UNION {SeqRange(LayerTrainableWeights("ae", r)) : r \in 0..l}
      \cup SeqRange(LayerTrainableWeights("ae",
                        Len(auto_encoder.layers_list) - 1 - l))
FinetuneCostReads == AEVariables
\* encode() ends in tf.stop_gradient: the encoder layers are read but no
\* gradient flows to them
ComputeLossReads == GenVariables

\* tape.gradient(loss, sources): one entry per source, None for a source the
\* loss does not depend on
TapeGradient(reads, sources) ==
    [j \in 1..Len(sources) |-> sources[j] \in reads]

\* The variable lists handed to tape.gradient and to apply_gradients.
PretrainSources(l) == LayerTrainableWeights("ae", l)
PretrainApplyVars_WholeModel(l) == ModelTrainableWeights("ae", auto_encoder)
PretrainApplyVars(l) == LayerTrainableWeights("ae", l)
FinetuneSources == ModelTrainableWeights("ae", auto_encoder)
FinetuneApplyVars == ModelTrainableWeights("ae", auto_encoder)
GeneratorSources == ModelTrainableWeights("gen", code_space_network)
GeneratorApplyVars_Autoencoder == ModelTrainableWeights("ae", auto_encoder)
GeneratorApplyVars == ModelTrainableWeights("gen", code_space_network)

\* optimizer.apply_gradients(zip(g, vs)): the variables that are updated are
\* those paired with a gradient that is not None.
ZipTargets(g, vs) == {vs[j] : j \in {n \in 1..Min(Len(g), Len(vs)) : g[n]}}

\* The layers a set of variables belongs to.
LayersOf(targets) == {<<v[1], v[2]>> : v \in targets}

\* The optimizer is an external collaborator: the value it gives an updated
\* variable is not determined here.  One value is drawn per updated layer.
ApplyGradients(g, vs, new) ==
    [v \in Variables |->
        IF v \in ZipTargets(g, vs) THEN new[<<v[1], v[2]>>] ELSE weights[v]]

\* for i in range(num_iterations): after the pass for i, whether another
\* pass follows
LoopContinues_OneMore(it, num_iterations) == it + 1 <= num_iterations
LoopContinues(it, num_iterations) == it + 1 < num_iterations

TrainInit ==
    /\ pc = "pretrain_loss"
    /\ layer_index = PretrainLayerRange[1]
    /\ i = 0
    /\ weights = [v \in Variables |-> 0]
    /\ grads = <<>>
    /\ updates = <<>>
    /\ tape_calls = 0
    /\ figure_calls = 0

\* with tf.GradientTape() ... auto_encoder.layerCost(batch_x, layer_index);
\* grads = tape.gradient(loss, auto_encoder.layers[layer_index].trainable_weights)
PretrainLoss ==
    /\ pc = "pretrain_loss"
    /\ grads' = TapeGradient(LayerCostReads(layer_index),
                             PretrainSources(layer_index))
    /\ pc' = "pretrain_apply"
    /\ tape_calls' = tape_calls + 1
    /\ UNCHANGED <<layer_index, i, weights, updates, figure_calls>>
    /\ UNCHANGED <<lossVars, netVars, costVars>>

\* Position of layer_index in the pretraining range
PretrainPos == CHOOSE p \in 1..Len(PretrainLayerRange) :
                   PretrainLayerRange[p] = layer_index

PretrainApply ==
    /\ pc = "pretrain_apply"
    /\ \E new \in [LayersOf(ZipTargets(grads, PretrainApplyVars(layer_index)))
                      -> ParamVals] :
          weights' = ApplyGradients(grads, PretrainApplyVars(layer_index), new)
    /\ updates' = Append(updates, [phase |-> "pretrain", layer |-> layer_index])
    /\ grads' = <<>>
    /\ UNCHANGED <<tape_calls, figure_calls>>
    /\ IF LoopContinues(i, PretrainIterations)
       THEN /\ i' = i + 1
            /\ pc' = "pretrain_loss"
            /\ UNCHANGED layer_index
       ELSE IF PretrainPos < Len(PretrainLayerRange)
       THEN /\ i' = 0
            /\ layer_index' = PretrainLayerRange[PretrainPos + 1]
            /\ pc' = "pretrain_loss"
       ELSE /\ i' = 0
            /\ pc' = "finetune_loss"
            /\ UNCHANGED layer_index
    /\ UNCHANGED <<lossVars, netVars, costVars>>

\* loss = auto_encoder.finetuneCost(batch_x);
\* grads = tape.gradient(loss, auto_encoder.trainable_weights)
FinetuneLoss ==
    /\ pc = "finetune_loss"
    /\ grads' = TapeGradient(FinetuneCostReads, FinetuneSources)
    /\ pc' = "finetune_apply"
    /\ tape_calls' = tape_calls + 1
    /\ UNCHANGED <<layer_index, i, weights, updates, figure_calls>>
    /\ UNCHANGED <<lossVars, netVars, costVars>>

FinetuneApply ==
    /\ pc = "finetune_apply"
    /\ \E new \in [LayersOf(ZipTargets(grads, FinetuneApplyVars)) -> ParamVals] :
          weights' = ApplyGradients(grads, FinetuneApplyVars, new)
    /\ updates' = Append(updates, [phase |-> "finetune", layer |-> None])
    /\ grads' = <<>>
    /\ UNCHANGED <<tape_calls, figure_calls>>
    /\ IF LoopContinues(i, FinetuneIterations)
       THEN /\ i' = i + 1
            /\ pc' = "finetune_loss"
       ELSE /\ i' = 0
            /\ pc' = "generator_loss"
    /\ UNCHANGED layer_index
    /\ UNCHANGED <<lossVars, netVars, costVars>>

\* loss = code_space_network.computeLoss(batch_x, batch_uniform, auto_encoder);
\* grads = tape.gradient(loss, code_space_network.trainable_weights)
GeneratorLoss ==
    /\ pc = "generator_loss"
    /\ grads' = TapeGradient(ComputeLossReads, GeneratorSources)
    /\ pc' = "generator_apply"
    /\ tape_calls' = tape_calls + 1
    /\ UNCHANGED <<layer_index, i, weights, updates, figure_calls>>
    /\ UNCHANGED <<lossVars, netVars, costVars>>

GeneratorApply ==
    /\ pc = "generator_apply"
    /\ \E new \in [LayersOf(ZipTargets(grads, GeneratorApplyVars)) -> ParamVals] :
          weights' = ApplyGradients(grads, GeneratorApplyVars, new)
    /\ updates' = Append(updates, [phase |-> "generator", layer |-> None])
    /\ grads' = <<>>
    /\ UNCHANGED <<tape_calls, figure_calls>>
    /\ IF LoopContinues(i, GeneratorIterations)
       THEN /\ i' = i + 1
            /\ pc' = "generator_loss"
       ELSE /\ pc' = "figure"
            /\ UNCHANGED i
    /\ UNCHANGED layer_index
    /\ UNCHANGED <<lossVars, netVars, costVars>>

\* gen_samples = code_space_network.generate(...); generateFigure(...)
GenerateFigure ==
    /\ pc = "figure"
    /\ pc' = "done"
    /\ figure_calls' = figure_calls + 1
    /\ UNCHANGED <<layer_index, i, weights, grads, updates, tape_calls>>
    /\ UNCHANGED <<lossVars, netVars, costVars>>

(***************************************************************************)
(* trainDataSpaceNetwork                                                   *)
(***************************************************************************)
data_space_dims == <<10, 64, 256, 256, input_dim>>
data_space_network == DataSpaceNetworkInit(data_space_dims, train_batch_size)

\* Iteration budget of the loop (40001 in the driver)
DataIterations == 2

\* frequency of printing out the cost
iteration_break == 1000

DataVariables == SeqRange(ModelTrainableWeights("dsn", data_space_network))

\* computeLoss runs self.call(samples): every layer of the network is read
DataLossReads == DataVariables
DataSources == ModelTrainableWeights("dsn", data_space_network)
DataApplyVars == ModelTrainableWeights("dsn", data_space_network)

DataApplyGradients(g, vs, new) ==
    [v \in DataVariables |->
        IF v \in ZipTargets(g, vs) THEN new[<<v[1], v[2]>>] ELSE weights[v]]

\* Where pass `it` of the loop starts: the cost is printed first
\* if it % iteration_break == 0
DataPassStart(it) ==
    IF it % iteration_break = 0 THEN "data_print" ELSE "data_loss"

DataTrainInit ==
    /\ pc = DataPassStart(0)
    /\ layer_index = 0
    /\ i = 0
    /\ weights = [v \in DataVariables |-> 0]
    /\ grads = <<>>
    /\ updates = <<>>
    /\ tape_calls = 0
    /\ figure_calls = 0

\* curr_cost = data_space_network.computeLoss(batch_x, batch_uniform); print:
\* a loss outside the tape, no gradient
DataPrintCost ==
    /\ pc = "data_print"
    /\ pc' = "data_loss"
    /\ UNCHANGED <<layer_index, i, weights, grads, updates, tape_calls,
                   figure_calls>>
    /\ UNCHANGED <<lossVars, netVars, costVars>>

\* with tf.GradientTape() ... computeLoss;
\* grads = tape.gradient(loss, data_space_network.trainable_weights)
DataLoss ==
    /\ pc = "data_loss"
    /\ grads' = TapeGradient(DataLossReads, DataSources)
    /\ pc' = "data_apply"
    /\ tape_calls' = tape_calls + 1
    /\ UNCHANGED <<layer_index, i, weights, updates, figure_calls>>
    /\ UNCHANGED <<lossVars, netVars, costVars>>

DataApply ==
    /\ pc = "data_apply"
    /\ \E new \in [LayersOf(ZipTargets(grads, DataApplyVars)) -> ParamVals] :
          weights' = DataApplyGradients(grads, DataApplyVars, new)
    /\ updates' = Append(updates, [phase |-> "data", layer |-> None])
    /\ grads' = <<>>
    /\ IF LoopContinues(i, DataIterations)
       THEN /\ i' = i + 1
            /\ pc' = DataPassStart(i + 1)
       ELSE /\ pc' = "data_figure"
            /\ UNCHANGED i
    /\ UNCHANGED <<layer_index, tape_calls, figure_calls>>
    /\ UNCHANGED <<lossVars, netVars, costVars>>

\* gen_samples = data_space_network(batch_uniform); generateFigure(...)
DataGenerateFigure ==
    /\ pc = "data_figure"
    /\ pc' = "done"
    /\ figure_calls' = figure_calls + 1
    /\ UNCHANGED <<layer_index, i, weights, grads, updates, tape_calls>>
    /\ UNCHANGED <<lossVars, netVars, costVars>>

(***************************************************************************)
(* computeLoss and makeScaleMatrix (DataSpaceNetwork and CodeSpaceNetwork  *)
(* hold the same code; CodeSpaceNetwork's real batch is the encoded one).  *)
(*                                                                         *)
(* A row is a vector of dimension 1 with a value of PixelVals.  A real     *)
(* number r is kept either as a fraction [num, den] (the scale entries) or *)
(* in fixed point, as the integer nearest r * FixedPointOne.               *)
(***************************************************************************)
MaxBatchSize == 3
MaxRows == 3
FixedPointOne == 1000
MaxRoundOff == 1

PixelVals == {0, 1}
\* the default bandwidths of CodeSpaceNetwork.computeLoss and (the first of)
\* DataSpaceNetwork.computeLoss
SigmaLists == {<<1>>, <<2, 5, 10>>}

Batches == UNION {[1..n -> PixelVals] : n \in 0..MaxRows}

Frac(num, den) == [num |-> num, den |-> den]

\* makeScaleMatrix(num_gen, num_orig): first 'N' entries 1/N, next 'M' -1/M
makeScaleMatrix(num_gen, num_orig) ==
    [j \in 1..(num_gen + num_orig) |->
        IF j <= num_gen THEN Frac(1, num_gen) ELSE Frac(-1, num_orig)]

\* X = tf.concat([gen_x, x], 0)
ConcatX == gen_x \o x

\* Twice the entry (a, b) of  exponent = XX - 0.5 * X2 - 0.5 * tf.transpose(X2)
Exponent2(X, a, b) == 2 * (X[a] * X[b]) - X[a] * X[a] - X[b] * X[b]

\* tf.exp(num / den) for num <= 0 < den, in fixed point: 1 / (1 + t + t^2/2)
\* with t = -num / den, which is 1 at 0 and decreases with t
TfExp(num, den) ==
    (FixedPointOne * 2 * den * den) \div (2 * den * den - 2 * num * den + num * num)

\* kernel_val = tf.exp(1.0 / sigma[i] * exponent), entry (a, b)
KernelVal(X, sig, a, b) == TfExp(Exponent2(X, a, b), 2 * sig)

\* Shapes that an elementwise product accepts (equal, or one of them 1)
Broadcastable(r1, r2) == r1 = r2 \/ r1 = 1 \/ r2 = 1
BroadcastIndex(a, rows) == IF rows = 1 THEN 1 ELSE a

RECURSIVE SumOver(_, _)
SumOver(f, dom) ==
    IF dom = {} THEN 0
    ELSE LET e == CHOOSE e \in dom : TRUE IN f[e] + SumOver(f, dom \ {e})

\* Division rounding toward zero
TruncDiv(a, b) == IF a >= 0 THEN a \div b ELSE -((-a) \div b)

\* tf.reduce_sum(S * kernel_val) with S = tf.matmul(s, tf.transpose(s)), exact,
\* in fixed point.  All entries of sc have the same denominator.
ReduceSumSK(sc, X, sig) ==
    LET rows == Max(Len(sc), Len(X))
        term == [e \in (1..rows) \X (1..rows) |->
                    sc[BroadcastIndex(e[1], Len(sc))].num
                  * sc[BroadcastIndex(e[2], Len(sc))].num
                  * KernelVal(X, sig, BroadcastIndex(e[1], Len(X)),
                                      BroadcastIndex(e[2], Len(X)))]
    IN  TruncDiv(SumOver(term, (1..rows) \X (1..rows)), sc[1].den * sc[1].den)

RECURSIVE IsPowerOfTwo(_)
IsPowerOfTwo(n) == n = 1 \/ (n > 1 /\ n % 2 = 0 /\ IsPowerOfTwo(n \div 2))

\* float32 arithmetic: 1.0 / batch_size is exact only for a power of two;
\* otherwise the products and their sum are rounded and the result of
\* reduce_sum is off the exact sum by a rounding error.
RoundOff(bsize) ==
    IF IsPowerOfTwo(bsize) THEN {0} ELSE (-MaxRoundOff)..MaxRoundOff

RECURSIVE Isqrt(_)
Isqrt(n) == IF n < 4 THEN (IF n = 0 THEN 0 ELSE 1)
            ELSE LET r == 2 * Isqrt(n \div 4)
                 IN IF (r + 1) * (r + 1) <= n THEN r + 1 ELSE r

NoOutcome == [kind |-> "none"]
Value(v) == [kind |-> "value", value |-> v]
NaN == [kind |-> "nan"]
Error(e) == [kind |-> "error", error |-> e]

\* tf.sqrt(loss): not-a-number for a negative argument
TfSqrt(v) == IF v < 0 THEN NaN ELSE Value(Isqrt(v * FixedPointOne))

LossInit ==
    /\ lpc = "start"
    /\ batch_size \in 0..MaxBatchSize
    /\ gen_x \in Batches
    /\ x \in Batches
    /\ sigma \in SigmaLists
    /\ s = <<>>
    /\ sigma_i = 0
    /\ loss = 0
    /\ outcome = NoOutcome

\* computeLoss up to the bandwidth loop: X, exponent, then
\* s = self.makeScaleMatrix(self.batch_size, self.batch_size); loss = 0
ScaleStep ==
    /\ lpc = "start"
    /\ IF batch_size = 0
       THEN /\ outcome' = Error("ZeroDivisionError")
            /\ lpc' = "done"
            /\ UNCHANGED s
       ELSE /\ s' = makeScaleMatrix(batch_size, batch_size)
            /\ lpc' = "kernel"
            /\ UNCHANGED outcome
    /\ sigma_i' = 0
    /\ loss' = 0
    /\ UNCHANGED <<batch_size, gen_x, x, sigma>>
    /\ UNCHANGED <<trainVars, netVars, costVars>>

\* one pass of  for i in range(len(sigma)):  loss += tf.reduce_sum(S * kernel_val)
KernelStep ==
    /\ lpc = "kernel"
    /\ sigma_i < Len(sigma)
    /\ IF Broadcastable(Len(s), Len(ConcatX))
       THEN /\ \E err \in RoundOff(batch_size) :
                 loss' = loss + ReduceSumSK(s, ConcatX, sigma[sigma_i + 1]) + err
            /\ sigma_i' = sigma_i + 1
            /\ UNCHANGED <<lpc, outcome>>
       ELSE /\ outcome' = Error("InvalidArgumentError")
            /\ lpc' = "done"
            /\ UNCHANGED <<loss, sigma_i>>
    /\ UNCHANGED <<batch_size, gen_x, x, sigma, s>>
    /\ UNCHANGED <<trainVars, netVars, costVars>>

\* return tf.sqrt(loss)
SqrtStep ==
    /\ lpc = "kernel"
    /\ sigma_i = Len(sigma)
    /\ outcome' = TfSqrt(loss)
    /\ lpc' = "done"
    /\ UNCHANGED <<batch_size, gen_x, x, sigma, s, sigma_i, loss>>
    /\ UNCHANGED <<trainVars, netVars, costVars>>

(***************************************************************************)
(* Constructors and forward passes.  A forward pass is modelled by the     *)
(* sequence of layers it applies: <<"ae", 3>> is auto_encoder.layers[3].   *)
(***************************************************************************)
MaxDims == 3
MaxDropouts == 2

\* layer sizes, and dropout probabilities in tenths
DimVals == {2, 3}
DropoutVals == {-5, 5, 12}

DimLists == UNION {[1..n -> DimVals] : n \in 1..MaxDims}
DropoutLists == UNION {[1..n -> DropoutVals] : n \in 1..MaxDropouts}

NoCall == [op |-> "none", args |-> <<>>, applied |-> <<>>]
Call(op, args, applied) == [op |-> op, args |-> args, applied |-> applied]

\* DataSpaceNetwork.call: for dim_index in range(len(self.dimensions) - 1)
DataSpaceCall(net) ==
    [j \in 1..Len(Range(Len(net.dimensions) - 1)) |->
        <<"dsn", Range(Len(net.dimensions) - 1)[j]>>]

\* CodeSpaceNetwork.call: for dim_index in range(len(self.dimensions))
CodeSpaceCall(net) ==
    [j \in 1..Len(Range(Len(net.dimensions))) |->
        <<"gen", Range(Len(net.dimensions))[j]>>]

\* while layer_index < len(auto_encoder.layers): h = layers[layer_index](h)
RECURSIVE DecodeLoop(_, _, _)
DecodeLoop(l, auto_enc, h) ==
    IF l < Len(auto_enc.layers_list)
    THEN DecodeLoop(l + 1, auto_enc, Append(h, <<"ae", l>>))
    ELSE h

\* CodeSpaceNetwork.generate
Generate(net, auto_enc) ==
    DecodeLoop(Len(auto_enc.dimensions) - 1, auto_enc, CodeSpaceCall(net))

\* while layer_index < len(auto_encoder.layers)/2  (a true division)
RECURSIVE EncodeLoop(_, _, _)
EncodeLoop(l, auto_enc, h) ==
    IF 2 * l < Len(auto_enc.layers_list)
    THEN EncodeLoop(l + 1, auto_enc, Append(h, <<"ae", l>>))
    ELSE h

\* CodeSpaceNetwork.encode
Encode_WholeStack(auto_enc) == DecodeLoop(0, auto_enc, <<>>)
Encode(auto_enc) == EncodeLoop(0, auto_enc, <<>>)

\* Autoencoder.layerCost: the layers before layer_index, the layer, and the
\* layer that reconstructs
LayerCost(auto_enc, l) ==
    [j \in 1..Len(Range(l)) |-> <<"ae", Range(l)[j]>>]
        \o << <<"ae", l>>, <<"ae", Len(auto_enc.layers_list) - 1 - l>> >>

\* Autoencoder.finetuneCost: for layer in range(len(self.layers))
FinetuneCost(auto_enc) ==
    [j \in 1..Len(Range(Len(auto_enc.layers_list))) |->
        <<"ae", Range(Len(auto_enc.layers_list))[j]>>]

NetInit ==
    /\ network \in {"data_space", "code_space"}
    /\ dsn = Unconstructed
    /\ ae = Unconstructed
    /\ csn = Unconstructed
    /\ last_call = NoCall

\* data_space_network = DataSpaceNetwork(data_space_dims, batch_size)
NewDataSpaceNetwork ==
    /\ network = "data_space"
    /\ dsn = Unconstructed
    /\ \E dimensions \in DimLists :
          /\ dsn' = DataSpaceNetworkInit(dimensions, train_batch_size)
          /\ last_call' = Call("DataSpaceNetwork",
                               [dimensions |-> dimensions,
                                batch_size |-> train_batch_size],
                               <<>>)
    /\ UNCHANGED <<network, ae, csn>>
    /\ UNCHANGED <<trainVars, lossVars, costVars>>

\* gen_samples = data_space_network(batch_uniform)
DataSpaceForward ==
    /\ dsn.ok
    /\ last_call' = Call("call", <<>>, DataSpaceCall(dsn))
    /\ UNCHANGED <<network, dsn, ae, csn>>
    /\ UNCHANGED <<trainVars, lossVars, costVars>>

\* auto_encoder = Autoencoder(auto_encoder_dims, dropout)
NewAutoencoder ==
    /\ network = "code_space"
    /\ ae = Unconstructed
    /\ \E dimensions \in DimLists, dropout \in DropoutLists :
          /\ ae' = AutoencoderInit(dimensions, dropout)
          /\ last_call' = Call("Autoencoder",
                               [dimensions |-> dimensions, dropout |-> dropout],
                               <<>>)
    /\ UNCHANGED <<network, dsn, csn>>
    /\ UNCHANGED <<trainVars, lossVars, costVars>>

\* code_space_network = CodeSpaceNetwork(code_space_dims, auto_encoder_dims,
\*                                       batch_size)
NewCodeSpaceNetwork ==
    /\ ae.ok
    /\ csn = Unconstructed
    /\ \E dimensions \in DimLists :
          /\ csn' = CodeSpaceNetworkInit(dimensions, ae.dimensions,
                                         train_batch_size)
          /\ last_call' = Call("CodeSpaceNetwork",
                               [dimensions |-> dimensions,
                                batch_size |-> train_batch_size],
                               <<>>)
    /\ UNCHANGED <<network, dsn, ae>>
    /\ UNCHANGED <<trainVars, lossVars, costVars>>

\* auto_encoder.layerCost(batch_x, layer_index), layer_index in
\* range(len(auto_encoder_dims) - 1)
LayerCostCall ==
    /\ ae.ok
    /\ \E j \in 1..Len(Range(Len(ae.dimensions) - 1)) :
          last_call' = Call("layerCost",
                            [layer_index |-> Range(Len(ae.dimensions) - 1)[j]],
                            LayerCost(ae, Range(Len(ae.dimensions) - 1)[j]))
    /\ UNCHANGED <<network, dsn, ae, csn>>
    /\ UNCHANGED <<trainVars, lossVars, costVars>>

\* auto_encoder.finetuneCost(batch_x)
FinetuneCostCall ==
    /\ ae.ok
    /\ last_call' = Call("finetuneCost", <<>>, FinetuneCost(ae))
    /\ UNCHANGED <<network, dsn, ae, csn>>
    /\ UNCHANGED <<trainVars, lossVars, costVars>>

\* code_space_network.encode(x, auto_encoder)
EncodeCall ==
    /\ ae.ok /\ csn.ok
    /\ last_call' = Call("encode", <<>>, Encode(ae))
    /\ UNCHANGED <<network, dsn, ae, csn>>
    /\ UNCHANGED <<trainVars, lossVars, costVars>>

\* code_space_network.generate(batch_uniform, auto_encoder)
GenerateCall ==
    /\ ae.ok /\ csn.ok
    /\ last_call' = Call("generate", <<>>, Generate(csn, ae))
    /\ UNCHANGED <<network, dsn, ae, csn>>
    /\ UNCHANGED <<trainVars, lossVars, costVars>>

(***************************************************************************)
(* layerCost as a value.  The arithmetic of a layer is not interpreted:    *)
(* what a layer returns is the term made of its index (which fixes its     *)
(* dropout mask), its W, its b and its input, and the cost is the term     *)
(* made of the two arguments of the cross entropy.  Two costs that are     *)
(* equal as terms are equal numbers.                                       *)
(***************************************************************************)
batch_x == [batch |-> "batch_x"]

\* self.layers[l](h) with the variables w: tf.sigmoid(tf.matmul(
\* tf.nn.dropout(h, dropout_prob), W) + b)
SigmoidCall(w, l, h) ==
    [layer |-> l, W |-> w[<<"ae", l, "W">>], b |-> w[<<"ae", l, "b">>], h |-> h]

\* for layer in range(layer_index): input_rep = self.layers[layer](input_rep)
RECURSIVE ForwardOver(_, _, _)
ForwardOver(w, layer_seq, h) ==
    IF layer_seq = <<>> THEN h
    ELSE ForwardOver(w, Tail(layer_seq), SigmoidCall(w, Head(layer_seq), h))

\* Autoencoder.layerCost(x, layer_index)
LayerCostValue_OffByOne(auto_enc, w, l) ==
    LET input_rep == ForwardOver(w, Range(l), batch_x)
        h == SigmoidCall(w, l, input_rep)
        rec == SigmoidCall(w, Len(auto_enc.layers_list) - 2 - l, h)
    IN  [input_rep |-> input_rep, rec |-> rec]

LayerCostValue(auto_enc, w, l) ==
    LET input_rep == ForwardOver(w, Range(l), batch_x)
        h == SigmoidCall(w, l, input_rep)
        rec == SigmoidCall(w, Len(auto_enc.layers_list) - 1 - l, h)
    IN  [input_rep |-> input_rep, rec |-> rec]

\* Two autoencoders of the driver's dimensions with any variables
CostInit ==
    /\ pc = "cost_start"
    /\ layer_index = 0
    /\ i = 0
    /\ weights \in [AEVariables -> ParamVals]
    /\ grads = <<>>
    /\ updates = <<>>
    /\ tape_calls = 0
    /\ figure_calls = 0
    /\ weights_b \in [AEVariables -> ParamVals]
    /\ cost = <<>>

\* loss = auto_encoder.layerCost(batch_x, layer_index) on each of the two,
\* for a layer_index of range(len(auto_encoder_dims) - 1)
LayerCostPair ==
    /\ pc = "cost_start"
    /\ \E j \in 1..Len(PretrainLayerRange) :
          /\ layer_index' = PretrainLayerRange[j]
          /\ cost' = [a |-> LayerCostValue(auto_encoder, weights,
                                           PretrainLayerRange[j]),
                      b |-> LayerCostValue(auto_encoder, weights_b,
                                           PretrainLayerRange[j])]
    /\ pc' = "cost_done"
    /\ UNCHANGED <<i, weights, grads, updates, tape_calls, figure_calls,
                   weights_b>>
    /\ UNCHANGED <<lossVars, netVars>>

\* Values of the variables of a part of the program that is not running.
LossIdle ==
    /\ lpc = "idle"
    /\ batch_size = 0
    /\ gen_x = <<>>
    /\ x = <<>>
    /\ sigma = <<>>
    /\ s = <<>>
    /\ sigma_i = 0
    /\ loss = 0
    /\ outcome = NoOutcome

NetIdle ==
    /\ network = None
    /\ dsn = Unconstructed
    /\ ae = Unconstructed
    /\ csn = Unconstructed
    /\ last_call = NoCall

\* No pair of autoencoders is being compared.
CostIdle ==
    /\ weights_b = <<>>
    /\ cost = <<>>

Init == TrainInit /\ LossIdle /\ NetIdle /\ CostIdle

Next ==
    \/ PretrainLoss
    \/ PretrainApply
    \/ FinetuneLoss
    \/ FinetuneApply
    \/ GeneratorLoss
    \/ GeneratorApply
    \/ GenerateFigure

Spec == Init /\ [][Next]_vars

\* A driver that has not started (the specifications of the other parts)
TrainIdle ==
    /\ pc = "idle"
    /\ layer_index = 0
    /\ i = 0
    /\ weights = <<>>
    /\ grads = <<>>
    /\ updates = <<>>
    /\ tape_calls = 0
    /\ figure_calls = 0

InitLoss == TrainIdle /\ LossInit /\ NetIdle /\ CostIdle

NextLoss ==
    \/ ScaleStep
    \/ KernelStep
    \/ SqrtStep

\* Either driver, as args.network selects it.  The program is one thread of
\* control: a step that can be taken is taken.
InitTrain ==
    /\ NetInit
    /\ LossIdle
    /\ CostIdle
    /\ IF network = "code_space" THEN TrainInit ELSE DataTrainInit

NextTrain ==
    \/ PretrainLoss
    \/ PretrainApply
    \/ FinetuneLoss
    \/ FinetuneApply
    \/ GeneratorLoss
    \/ GeneratorApply
    \/ GenerateFigure
    \/ DataPrintCost
    \/ DataLoss
    \/ DataApply
    \/ DataGenerateFigure

SpecTrain == InitTrain /\ [][NextTrain]_vars /\ WF_vars(NextTrain)

InitCost == CostInit /\ LossIdle /\ NetIdle

NextCost == LayerCostPair

SpecCost == InitCost /\ [][NextCost]_vars

SpecLoss == InitLoss /\ [][NextLoss]_vars

InitNet == TrainIdle /\ LossIdle /\ NetInit /\ CostIdle

NextNet ==
    \/ NewDataSpaceNetwork
    \/ DataSpaceForward
    \/ NewAutoencoder
    \/ NewCodeSpaceNetwork
    \/ LayerCostCall
    \/ FinetuneCostCall
    \/ EncodeCall
    \/ GenerateCall

SpecNet == InitNet /\ [][NextNet]_vars

(***************************************************************************)
(* Properties of trainCodeSpaceNetwork (checked under Spec)                *)
(***************************************************************************)
NumEncodingStages == Len(auto_encoder_dims) - 1

\* Place of an update in the order  layer 0, ..., layer k-1, finetune,
\* generator
PhaseRank(u) ==
    IF u.phase = "pretrain" THEN u.layer
    ELSE IF u.phase = "finetune" THEN NumEncodingStages
    ELSE NumEncodingStages + 1

PhaseBudget(rank) ==
    IF rank < NumEncodingStages THEN PretrainIterations
    ELSE IF rank = NumEncodingStages THEN FinetuneIterations
    ELSE GeneratorIterations

UpdatesOfRank(rank) ==
    Cardinality({n \in 1..Len(updates) : PhaseRank(updates[n]) = rank})

\* C1: the updates of trainCodeSpaceNetwork come in the order pretraining of
\* layer 0, of layer 1, ..., of layer k-1, then finetuning, then generator
\* training: an update of a later phase is never followed by an update of an
\* earlier phase, and when an update of a phase happens every earlier phase
\* has made all of its updates.
C1_PhaseOrder ==
    /\ \A a, b \in 1..Len(updates) :
          a < b => PhaseRank(updates[a]) <= PhaseRank(updates[b])
    /\ \A n \in 1..Len(updates) :
          \A r \in 0..(PhaseRank(updates[n]) - 1) :
             UpdatesOfRank(r) = PhaseBudget(r)

\* The run is over and every phase has made its updates.
C1_Witness ==
    /\ pc = "done"
    /\ \A r \in 0..(NumEncodingStages + 1) : UpdatesOfRank(r) = PhaseBudget(r)
    /\ NumEncodingStages >= 2

InPretraining == pc \in {"pretrain_loss", "pretrain_apply"}
InFinetuning == pc \in {"finetune_loss", "finetune_apply"}
InGeneratorTraining ==
    pc \in {"generator_loss", "generator_apply", "figure", "done"}

Kept(v) == weights'[v] = weights[v]

\* C2: a step of the pretraining phase of layer i changes no variable but the
\* W and b of autoencoder layer i (not the mirrored decoder layer, no other
\* autoencoder layer, no generator variable); a step of the finetuning phase
\* changes no generator variable.
C2_PretrainFinetuneFrame ==
    [][/\ InPretraining =>
            \A v \in Variables \ SeqRange(LayerTrainableWeights("ae", layer_index)) :
                Kept(v)
       /\ InFinetuning => \A v \in GenVariables : Kept(v)]_vars

\* Finetuning is over: every autoencoder layer, the decoder layers included,
\* has a value it was not initialized with, and no generator variable has.
C2_Witness ==
    /\ pc = "generator_loss"
    /\ \A v \in AEVariables : weights[v] # 0
    /\ \A v \in GenVariables : weights[v] = 0

\* C3: in the generator-training phase no step changes a variable of the
\* autoencoder, and the variables an update is applied to are variables of
\* the CodeSpaceNetwork's own layers.
C3_GeneratorFrame ==
    [][InGeneratorTraining =>
          /\ \A v \in AEVariables : Kept(v)
          /\ pc = "generator_apply" =>
                ZipTargets(grads, GeneratorApplyVars) \subseteq GenVariables]_vars

\* Generator training is over and has changed every generator variable.
C3_Witness ==
    /\ pc = "done"
    /\ \A v \in GenVariables : weights[v] # 0
    /\ \E v \in AEVariables : weights[v] # 0

(***************************************************************************)
(* Properties of computeLoss (checked under SpecLoss)                      *)
(***************************************************************************)
ScaleMade == lpc \in {"kernel", "done"} /\ s # <<>>

\* C4: for a generated batch of n >= 1 rows and a real batch of m >= 1 rows
\* the scale vector of computeLoss has n + m entries, the first n of them
\* 1/n and the last m of them -1/m.
C4_ScaleMatchesBatches ==
    (ScaleMade /\ Len(gen_x) >= 1 /\ Len(x) >= 1) =>
        /\ Len(s) = Len(gen_x) + Len(x)
        /\ \A j \in 1..Len(s) :
              s[j] = IF j <= Len(gen_x) THEN Frac(1, Len(gen_x))
                                        ELSE Frac(-1, Len(x))

\* C5: what computeLoss returns is a non-negative value: a negative
\* accumulated sum is clamped and gives 0, never not-a-number.  (Stated for
\* the calls the drivers make, both batches of batch_size rows.)
C5_LossNonNegative ==
    (lpc = "done" /\ outcome.kind # "error"
        /\ Len(gen_x) = batch_size /\ Len(x) = batch_size) =>
        /\ outcome.kind = "value"
        /\ outcome.value >= 0
        /\ loss < 0 => outcome.value = 0

\* C6: computeLoss on a generated batch of zero rows or a real batch of zero
\* rows ends in an error and returns no loss.
C6_ZeroBatchFails ==
    (lpc = "done" /\ (Len(gen_x) = 0 \/ Len(x) = 0)) => outcome.kind = "error"

(***************************************************************************)
(* Properties of the constructors and forward passes (checked under        *)
(* SpecNet)                                                                *)
(***************************************************************************)
\* number of encoding stages of an autoencoder
Stages(auto_enc) == Len(auto_enc.dimensions) - 1

EncoderLayers(k) == [j \in 1..k |-> <<"ae", j - 1>>]
DecoderLayers(k) == [j \in 1..k |-> <<"ae", k + j - 1>>]
GeneratorLayers(net) == [j \in 1..Len(net.layers_list) |-> <<"gen", j - 1>>]
AllAELayers(auto_enc) == {<<"ae", l>> : l \in 0..(Len(auto_enc.layers_list) - 1)}

\* C7: encode applies autoencoder layers 0..k-1 in order and nothing else;
\* generate applies every generator layer in order and then autoencoder
\* layers k..2k-1 in order; the autoencoder layers of the two are disjoint
\* and every autoencoder layer is applied exactly once by one of them.
C7_EncodeGenerateHalves ==
    /\ last_call.op = "encode" =>
          last_call.applied = EncoderLayers(Stages(ae))
    /\ last_call.op = "generate" =>
          last_call.applied = GeneratorLayers(csn) \o DecoderLayers(Stages(ae))
    /\ (ae.ok /\ csn.ok) =>
          LET enc == Encode(ae)
              gen == Generate(csn, ae)
              dec == SubSeq(gen, Len(csn.layers_list) + 1, Len(gen))
          IN  /\ Len(ae.layers_list) = 2 * Stages(ae)
              /\ SeqRange(enc) \cap SeqRange(dec) = {}
              /\ SeqRange(enc) \cup SeqRange(dec) = AllAELayers(ae)
              /\ Len(enc) + Len(dec) = Len(ae.layers_list)

\* generate was called with an autoencoder of two encoding stages and a
\* generator of at least two layers
C7_Witness ==
    /\ last_call.op = "generate"
    /\ Stages(ae) = 2
    /\ Len(csn.layers_list) >= 2

\* C8: an Autoencoder built from k+1 dimensions (k >= 1) has 2k layers,
\* decoder layer k+j takes the output dimension of encoder layer k-1-j and
\* gives its input dimension, and the layer layerCost reconstructs with,
\* 2k-1-i, gives vectors of the input dimension of layer i.
C8_MirroredDecoder ==
    (ae.ok /\ Stages(ae) >= 1) =>
        LET k == Stages(ae)
            layers == ae.layers_list
        IN  /\ Len(layers) = 2 * k
            /\ \A j \in 0..(k - 1) :
                  /\ layers[(k + j) + 1].input_dim
                        = layers[(k - 1 - j) + 1].output_dim
                  /\ layers[(k + j) + 1].output_dim
                        = layers[(k - 1 - j) + 1].input_dim
            /\ last_call.op = "layerCost" =>
                  LET l == last_call.args.layer_index
                      rec == last_call.applied[Len(last_call.applied)]
                  IN  /\ rec = <<"ae", 2 * k - 1 - l>>
                      /\ layers[rec[2] + 1].output_dim = layers[l + 1].input_dim

\* layerCost was called for layer 0 of an autoencoder of two encoding stages
\* whose dimensions differ
C8_Witness ==
    /\ ae.ok
    /\ last_call.op = "layerCost"
    /\ last_call.args.layer_index = 0
    /\ Stages(ae) = 2
    /\ ae.dimensions[1] # ae.dimensions[3]

\* C9: a DataSpaceNetwork is built from every dimension list of length
\* L >= 2 and has L-1 layers, layer i from dimensions[i] to dimensions[i+1],
\* all rectified-linear but the last, which is sigmoid; call applies the L-1
\* layers in order.
C9_DataSpaceNetworkBuilt ==
    /\ (last_call.op = "DataSpaceNetwork"
            /\ Len(last_call.args.dimensions) >= 2) =>
          LET dims == last_call.args.dimensions
          IN  /\ dsn.ok
              /\ Len(dsn.layers_list) = Len(dims) - 1
              /\ \A j \in 1..(Len(dims) - 1) :
                    /\ dsn.layers_list[j].input_dim = dims[j]
                    /\ dsn.layers_list[j].output_dim = dims[j + 1]
                    /\ dsn.layers_list[j].kind
                          = IF j < Len(dims) - 1 THEN "relu" ELSE "sigmoid"
    /\ last_call.op = "call" =>
          last_call.applied
              = [j \in 1..(Len(dsn.dimensions) - 1) |-> <<"dsn", j - 1>>]

ConstructedLayers ==
    UNION {IF net.ok THEN SeqRange(net.layers_list) ELSE {} : net \in {dsn, ae, csn}}

\* C10: no constructed layer holds a dropout probability outside [0, 1]: the
\* constructor of the sigmoid layer, and with it that of the Autoencoder,
\* raises instead.
C10_DropoutInRange ==
    \A layer \in ConstructedLayers :
        layer.kind = "sigmoid" => layer.dropout_prob \in 0..10

(***************************************************************************)
(* Properties of the two drivers (checked under SpecTrain)                 *)
(***************************************************************************)
\* N for the data-space regime, k*P + F + G for the code-space regime
TotalUpdates ==
    IF network = "data_space"
    THEN DataIterations
    ELSE NumEncodingStages * PretrainIterations + FinetuneIterations
            + GeneratorIterations

GradientPending == pc \in {"pretrain_apply", "finetune_apply",
                           "generator_apply", "data_apply"}
AfterLastUpdate == pc \in {"figure", "data_figure", "done"}

C11_Counts ==
    /\ tape_calls = Len(updates) + (IF GradientPending THEN 1 ELSE 0)
    /\ Len(updates) <= TotalUpdates
    /\ AfterLastUpdate <=> Len(updates) = TotalUpdates
    /\ figure_calls = (IF pc = "done" THEN 1 ELSE 0)
    /\ (pc = "done" /\ network = "code_space") =>
          \A r \in 0..(NumEncodingStages + 1) :
             UpdatesOfRank(r) = PhaseBudget(r)
    /\ pc = "done" => ~ENABLED NextTrain

\* C11: both drivers end, whatever values the updates give the variables:
\* every update is preceded by exactly one gradient computation of its own,
\* the data-space driver makes exactly N updates, the code-space driver
\* exactly k*P + F + G (P for each pretrained layer, F finetune, G generator),
\* and the figure is generated exactly once, after the last update, after
\* which nothing more happens.
C11_FixedIterations == []C11_Counts /\ <>(pc = "done")

\* the code-space driver has ended
C11_Witness ==
    /\ pc = "done"
    /\ network = "code_space"
    /\ Len(updates) = TotalUpdates
    /\ tape_calls = TotalUpdates
    /\ figure_calls = 1

(***************************************************************************)
(* Properties of layerCost as a value (checked under SpecCost)             *)
(***************************************************************************)
AgreeOn(vs) == \A v \in vs : weights[v] = weights_b[v]

\* C12: two autoencoders that agree on the W and b of layers 0..i and of the
\* mirrored decoder layer 2k-1-i, whatever their other layers hold, get the
\* same layerCost(batch, i) from the same batch and the same dropout masks;
\* for i = 0 these are layer 0 and the last decoder layer.
C12_LayerCostDependsOnReads ==
    (pc = "cost_done" /\ AgreeOn(LayerCostReads(layer_index))) =>
        cost.a = cost.b

\* layerCost of layer 0 on two autoencoders that agree on layer 0 and on the
\* last decoder layer and differ in every other variable
C12_Witness ==
    /\ pc = "cost_done"
    /\ layer_index = 0
    /\ LayerCostReads(0)
          = SeqRange(LayerTrainableWeights("ae", 0))
              \cup SeqRange(LayerTrainableWeights("ae",
                                Len(auto_encoder.layers_list) - 1))
    /\ AgreeOn(LayerCostReads(0))
    /\ \A v \in AEVariables \ LayerCostReads(0) : weights[v] # weights_b[v]
    /\ AEVariables \ LayerCostReads(0) # {}

====
